---- MODULE Spec2Model ----
(***************************************************************************)
(* Model of the wire-format codec of the Cursor API proxy                  *)
(* (src/src/utils.js) and of the chat-completions handler that drives it   *)
(* (src/src/index.js): the tests on the request, the encoding, the         *)
(* upstream call, the response loop and the catch block.                   *)
(*                                                                         *)
(* Bytes are integers 0..255, a Buffer is a sequence of bytes, a hex       *)
(* string is a sequence of one-character strings, a JavaScript string of   *)
(* text is a sequence of code points.                                      *)
(***************************************************************************)
EXTENDS Integers, Sequences, FiniteSets, TLC

VARIABLES
  pc,             \* position of the running call / handler
  buffer,         \* stringToHex: the schema-encoded request payload
  hexData,        \* stringToHex: the bytes it returned
  chunk,          \* chunkToUtf8String: its argument
  hex,            \* utils.js:69
  offset,         \* utils.js:71
  results,        \* utils.js:72
  dataLength,     \* utils.js:80, of the last iteration
  messageBuffer,  \* utils.js:91, of the last iteration
  settled,        \* state of the promise returned by chunkToUtf8String
  text,           \* the value the promise resolved to
  raised,         \* an error was thrown inside the try block
  fallback,       \* gunzip(chunk) was called
  gzArg,          \* the argument gunzip was called with
  iters,          \* iterations of the while loop entered for this chunk
  segs,           \* history: how the environment assembled the chunk
  stream,         \* index.js:29, req.body.stream
  nread,          \* chunks the response body has yielded so far
  reads,          \* history: how each chunk read was assembled, in read order
  texts,          \* history: the text each chunk resolved to, in read order
  out,            \* stream mode: the payloads of res.write, in write order
  content,        \* non-stream mode: the accumulator of index.js:128
  reply,          \* the JSON content of index.js:149, once sent
  req,            \* the request: body.model, body.messages, body.stream and
                  \* the Authorization header
  formatted,      \* utils.js:20, formattedMessages
  res,            \* the response: headersSent, the status code, the body
                  \* sent with it and how often json() or end() was called
  fetched,        \* upstream requests sent (index.js:69)
  lastIndex,      \* utils.js:10: lastIndex of the module's one RegExp object
  rid,            \* the request whose continuation is running
  parked          \* the locals of the request suspended at an await

vars == <<pc, buffer, hexData, chunk, hex, offset, results, dataLength,
          messageBuffer, settled, text, raised, fallback, gzArg, iters, segs,
          stream, nread, reads, texts, out, content, reply,
          req, formatted, res, fetched, lastIndex, rid, parked>>

codecVars == <<buffer, hexData, chunk, hex, offset, results, dataLength,
               messageBuffer, settled, text, raised, fallback, gzArg, iters,
               segs>>

handlerVars == <<stream, nread, reads, texts, out, content, reply>>

requestVars == <<req, formatted, res, fetched>>

\* what a step of the codec leaves alone besides the codec's own state
outerVars == <<handlerVars, requestVars, rid, parked>>

(***************************************************************************)
(* Bounds of the model.                                                    *)
(***************************************************************************)
\* longest sequence of segments (frames, partial frames) in one chunk
MaxSegs == 3
\* most chunks one upstream response body yields
MaxChunks == 2
\* JavaScript numbers hold every 10-digit hexadecimal value exactly; the
\* model's integers are 32-bit, so lengths saturate at a value far beyond
\* the length of any modelled chunk, which keeps every comparison exact.
HugeLen == 16777216

(***************************************************************************)
(* Sequences, hexadecimal text and numbers.                                *)
(***************************************************************************)
Min(a, b) == IF a < b THEN a ELSE b

\* the concatenation of the first n sequences of ss
RECURSIVE FlattenTo(_, _)
FlattenTo(ss, n) == IF n = 0 THEN <<>> ELSE FlattenTo(ss, n - 1) \o ss[n]

Flatten(ss) == FlattenTo(ss, Len(ss))

\* Array.prototype.slice / String.prototype.slice / Buffer.slice with
\* 0-based, end-exclusive, clamped indices
Slice(s, from, to) == SubSeq(s, Min(from, Len(s)) + 1, Min(to, Len(s)))

SliceFrom(s, from) == Slice(s, from, Len(s))

LowerDigits ==
  <<"0","1","2","3","4","5","6","7","8","9","a","b","c","d","e","f">>

UpperDigits ==
  <<"0","1","2","3","4","5","6","7","8","9","A","B","C","D","E","F">>

IsHexChar(c) == \E n \in 1..16 : LowerDigits[n] = c \/ UpperDigits[n] = c

HexVal(c) == (CHOOSE n \in 1..16 : LowerDigits[n] = c \/ UpperDigits[n] = c) - 1

\* Buffer.prototype.toString('hex'): two lower-case digits per byte
BufToHex(buf) ==
  [i \in 1..(2 * Len(buf)) |->
     IF i % 2 = 1 THEN LowerDigits[(buf[(i + 1) \div 2] \div 16) + 1]
                  ELSE LowerDigits[(buf[i \div 2] % 16) + 1]]

\* Buffer.from(s, 'hex'): one byte per pair of digits, either case; a
\* trailing single digit is dropped and decoding stops at the first pair
\* that is not hexadecimal
BufFromHex(s) ==
  LET pairs == Len(s) \div 2
      valid(k) == IsHexChar(s[2 * k - 1]) /\ IsHexChar(s[2 * k])
      bad == {k \in 1..pairs : ~valid(k)}
      n == IF bad = {} THEN pairs
           ELSE (CHOOSE k \in bad : \A j \in bad : k <= j) - 1
  IN  [k \in 1..n |-> 16 * HexVal(s[2 * k - 1]) + HexVal(s[2 * k])]

\* the value of digits a..b of s, at most six of them
RECURSIVE DigitsValue(_, _, _)
DigitsValue(s, a, b) ==
  IF b < a THEN 0 ELSE 16 * DigitsValue(s, a, b - 1) + HexVal(s[b])

\* parseInt(s, 16) of a non-empty string of hexadecimal digits: exact
\* below 16^6 = HugeLen, and HugeLen from there on
ParseInt16(s) ==
  IF \E i \in 1..(Len(s) - 6) : HexVal(s[i]) # 0 THEN HugeLen
  ELSE DigitsValue(s, IF Len(s) > 6 THEN Len(s) - 5 ELSE 1, Len(s))

\* Number.prototype.toString(16) of a non-negative integer
RECURSIVE NumToHex(_)
NumToHex(n) ==
  IF n < 16 THEN <<LowerDigits[n + 1]>>
  ELSE NumToHex(n \div 16) \o <<LowerDigits[(n % 16) + 1]>>

\* String.prototype.padStart(width, pad) with a one-character pad
PadStart(s, width, pad) ==
  IF Len(s) >= width THEN s ELSE [i \in 1..(width - Len(s)) |-> pad] \o s

\* String.prototype.toUpperCase on hexadecimal text
ToUpperCase(s) ==
  [i \in 1..Len(s) |-> IF IsHexChar(s[i]) THEN UpperDigits[HexVal(s[i]) + 1] ELSE s[i]]

\* Buffer.prototype.toString('utf-8') on the bytes the model uses: ASCII
\* bytes are their own code point, a byte that cannot start a sequence
\* becomes U+FFFD
Utf8ToString(buf) ==
  [i \in 1..Len(buf) |-> IF buf[i] < 128 THEN buf[i] ELSE 65533]

\* Array.prototype.join('')
Join(rs) == Flatten(rs)

(***************************************************************************)
(* MessageCodec.Decode: $root.ResMessage.decode of message.js, a schema    *)
(* with one text field (field 1).  A payload is a sequence of fields, each *)
(* a varint tag (field number * 8 + wire type) and a value; the text field *)
(* is a varint length and that many UTF-8 bytes, any other field is        *)
(* skipped by its wire type, and a structurally invalid payload throws.    *)
(***************************************************************************)
DecodeError == [ok |-> FALSE, msg |-> <<>>]

RECURSIVE ReadVarint(_, _)
ReadVarint(buf, pos) ==
  IF pos > Len(buf) THEN [ok |-> FALSE, val |-> 0, next |-> pos]
  ELSE IF buf[pos] < 128 THEN [ok |-> TRUE, val |-> buf[pos], next |-> pos + 1]
  ELSE LET r == ReadVarint(buf, pos + 1)
       IN  [ok |-> r.ok,
            val |-> IF r.val >= HugeLen \div 128 THEN HugeLen
                    ELSE (buf[pos] - 128) + 128 * r.val,
            next |-> r.next]

\* the position after a value of the given wire type, 0 when it is invalid
SkipType(buf, pos, wire) ==
  CASE wire = 0 -> LET v == ReadVarint(buf, pos) IN IF v.ok THEN v.next ELSE 0
    [] wire = 1 -> IF pos + 8 <= Len(buf) + 1 THEN pos + 8 ELSE 0
    [] wire = 2 -> LET n == ReadVarint(buf, pos)
                   IN  IF n.ok /\ n.next + n.val <= Len(buf) + 1
                       THEN n.next + n.val ELSE 0
    [] wire = 5 -> IF pos + 4 <= Len(buf) + 1 THEN pos + 4 ELSE 0
    [] OTHER -> 0

\* the one element of a singleton set; {e(x) : x \in {v}} evaluates v once
Only(S) == CHOOSE x \in S : TRUE

RECURSIVE DecodeFrom(_, _, _)

\* one field, whose tag has been read
DecodeField(buf, tag, msg) ==
  IF ~tag.ok THEN DecodeError
  ELSE IF tag.val \div 8 = 1
  THEN Only({ IF n.ok /\ n.next + n.val <= Len(buf) + 1
              THEN Only({ DecodeFrom(buf, p, m) :
                            p \in {n.next + n.val},
                            m \in {Utf8ToString(SubSeq(buf, n.next, n.next + n.val - 1))} })
              ELSE DecodeError :
              n \in {ReadVarint(buf, tag.next)} })
  ELSE Only({ IF after = 0 THEN DecodeError ELSE DecodeFrom(buf, after, msg) :
              after \in {SkipType(buf, tag.next, tag.val % 8)} })

\* the fields from position pos on; msg is the text read so far
DecodeFrom(buf, pos, msg) ==
  IF pos > Len(buf) THEN [ok |-> TRUE, msg |-> msg]
  ELSE Only({ DecodeField(buf, tag, msg) : tag \in {ReadVarint(buf, pos)} })

\* [ok |-> FALSE] stands for a thrown error; msg defaults to the empty string
Decode(buf) == DecodeFrom(buf, 1, <<>>)

(***************************************************************************)
(* The sentinel pattern of utils.js:10 and RegExp.prototype.test.          *)
(***************************************************************************)
\* "<|BEGIN_SYSTEM|>"
BEGIN_SYSTEM == <<60, 124, 66, 69, 71, 73, 78, 95, 83, 89, 83, 84, 69, 77, 124, 62>>
\* "<|END_SYSTEM|>"
END_SYSTEM == <<60, 124, 69, 78, 68, 95, 83, 89, 83, 84, 69, 77, 124, 62>>
\* "<|BEGIN_USER|>"
BEGIN_USER == <<60, 124, 66, 69, 71, 73, 78, 95, 85, 83, 69, 82, 124, 62>>
\* "<|END_USER|>"
END_USER == <<60, 124, 69, 78, 68, 95, 85, 83, 69, 82, 124, 62>>

\* pat occurs in s at 0-based index i
OccursAt(s, pat, i) ==
  /\ i >= 0
  /\ i + Len(pat) <= Len(s)
  /\ SubSeq(s, i + 1, i + Len(pat)) = pat

\* the first index at or after from where pat occurs in s, or -1
IndexOf(s, pat, from) ==
  LET hits == {i \in from..(Len(s) - Len(pat)) : OccursAt(s, pat, i)} IN
  IF from < 0 \/ hits = {} THEN -1
  ELSE CHOOSE i \in hits : \A j \in hits : i <= j

\* where the first pat at or after from ends, or -1
EndOfFirst(s, pat, from) ==
  LET i == IndexOf(s, pat, from) IN IF i < 0 THEN -1 ELSE i + Len(pat)

\* variant: the pattern without its s flag, so that . stops at a newline
regex_noDotAll(s) ==
  \E a \in 0..Len(s) :
    /\ OccursAt(s, BEGIN_SYSTEM, a)
    /\ \E b \in (a + Len(BEGIN_SYSTEM))..Len(s) :
         /\ OccursAt(s, END_SYSTEM, b)
         /\ \E c \in (b + Len(END_SYSTEM))..Len(s) :
              /\ OccursAt(s, BEGIN_USER, c)
              /\ \E d \in (c + Len(BEGIN_USER))..Len(s) :
                   /\ OccursAt(s, END_USER, d)
                   /\ \A i \in (a + 1)..d : s[i] # 10

\* regex.test(s): the regex has the s flag (. matches a newline too) and no
\* g or y flag, so test keeps no lastIndex.  The matcher tries every start
\* of the first literal and lets each lazy .*? grow until the literal that
\* follows it matches, backtracking over all of them.
regex(s) ==
  \E a \in 0..Len(s) :
    /\ OccursAt(s, BEGIN_SYSTEM, a)
    /\ \E b \in (a + Len(BEGIN_SYSTEM))..Len(s) :
         /\ OccursAt(s, END_SYSTEM, b)
         /\ \E c \in (b + Len(END_SYSTEM))..Len(s) :
              /\ OccursAt(s, BEGIN_USER, c)
              /\ \E d \in (c + Len(BEGIN_USER))..Len(s) :
                   OccursAt(s, END_USER, d)

\* variant: the pattern created with the g flag.  test() then starts at the
\* object's lastIndex and stores the end of the match there, or 0 when
\* nothing matches; the lazy match from the leftmost start ends with the
\* first occurrence of each literal after the one before it.
regexTest_global(s, li) ==
  LET e == EndOfFirst(s, END_USER,
             EndOfFirst(s, BEGIN_USER,
               EndOfFirst(s, END_SYSTEM,
                 EndOfFirst(s, BEGIN_SYSTEM, IF li > Len(s) THEN -1 ELSE li))))
  IN  IF e >= 0 THEN [found |-> TRUE, lastIndex |-> e]
      ELSE [found |-> FALSE, lastIndex |-> 0]

\* utils.js:124, regex.test(s) on the RegExp object of utils.js:10, whose
\* lastIndex is li: without g or y the search starts at 0 and lastIndex is
\* left as it is
regexTest(s, li) == [found |-> regex(s), lastIndex |-> li]

(***************************************************************************)
(* zlib.gunzip of the Node runtime.  A compressed stream is modelled as    *)
(* the two gzip magic bytes followed by code bytes: codes 1..4 stand for   *)
(* the four delimiters, any other code below 128 for itself, and a code    *)
(* of 128 or more is corrupt data.  Anything else, the empty buffer        *)
(* included, is a decompression error passed to the callback.              *)
(***************************************************************************)
Expand(code) ==
  CASE code = 1 -> BEGIN_SYSTEM
    [] code = 2 -> END_SYSTEM
    [] code = 3 -> BEGIN_USER
    [] code = 4 -> END_USER
    [] OTHER -> <<code>>

zlib_gunzip(buf) ==
  IF Len(buf) < 2 \/ buf[1] # 31 \/ buf[2] # 139
     \/ \E i \in 3..Len(buf) : buf[i] >= 128
  THEN [err |-> TRUE, decompressed |-> <<>>]
  ELSE [err |-> FALSE,
        decompressed |-> Flatten([i \in 1..(Len(buf) - 2) |-> Expand(buf[i + 2])])]

(***************************************************************************)
(* gunzip (utils.js:113-132).                                              *)
(***************************************************************************)
\* variant: one byte too few skipped
gunzipArg_four(c) == SliceFrom(c, 4)

\* the argument handed to zlib.gunzip
gunzipArg(c) == SliceFrom(c, 5)

\* the callback of utils.js:116-130: what the promise settles to
\* variant: zlib's error passed on with reject(err)
gunzipCallback_rejects(err, t) ==
  IF err THEN [settled |-> "rejected", text |-> <<>>]
  ELSE IF regexTest(t, lastIndex).found THEN [settled |-> "resolved", text |-> <<>>]
       ELSE [settled |-> "resolved", text |-> t]

\* err is zlib's error and t is decompressed.toString('utf-8')
gunzipCallback(err, t) ==
  IF err THEN [settled |-> "resolved", text |-> <<>>]
  ELSE IF regexTest(t, lastIndex).found THEN [settled |-> "resolved", text |-> <<>>]
       ELSE [settled |-> "resolved", text |-> t]

\* what gunzip(c) settles to
gunzip(c) ==
  LET r == zlib_gunzip(gunzipArg(c))
  IN  gunzipCallback(r.err, Utf8ToString(r.decompressed))

(***************************************************************************)
(* stringToHex, the framing of the encoded payload (utils.js:52-58).       *)
(***************************************************************************)
\* variant: the length written without padStart
hexString_noPad(buf) == ToUpperCase(NumToHex(Len(buf)) \o BufToHex(buf))

hexString(buf) ==
  ToUpperCase(PadStart(NumToHex(Len(buf)), 10, "0") \o BufToHex(buf))

stringToHex(buf) == BufFromHex(hexString(buf))

(***************************************************************************)
(* chunkToUtf8String, the conditions and values of utils.js:75-101.        *)
(***************************************************************************)
\* utils.js:75, the loop condition
moreHex(h, off) == off < Len(h)

\* variant: the test of utils.js:77 left out
prefixAvailable_unchecked(h, off) == TRUE

\* utils.js:77, negated: a whole length prefix is left
prefixAvailable(h, off) == off + 10 <= Len(h)

\* variant: only 8 characters of the length prefix read
readLength_short(h, off) == ParseInt16(Slice(h, off, off + 8))

\* utils.js:80
readLength(h, off) == ParseInt16(Slice(h, off, off + 10))

\* variant: the comparison of utils.js:84 made with >= : a frame that ends
\* exactly at the end of the chunk is taken for incomplete
payloadAvailable_strict(h, off, len) == off + len * 2 < Len(h)

\* variant: the check of utils.js:84 left out
payloadAvailable_unchecked(h, off, len) == TRUE

\* utils.js:84, negated: the declared payload is all there
payloadAvailable(h, off, len) == off + len * 2 <= Len(h)

\* variant: the slice of utils.js:87 taken len characters long, not len * 2
messageHex_single(h, off, len) == Slice(h, off, off + len)

\* utils.js:87
messageHex(h, off, len) == Slice(h, off, off + len * 2)

\* variant: the fallback decided by the joined text being empty
noResults_byText(rs) == Join(rs) = <<>>

\* utils.js:97
noResults(rs) == Len(rs) = 0

\* utils.js:101
joined(rs) == Join(rs)

(***************************************************************************)
(* The clean-up of the accumulated text in non-stream mode                 *)
(* (index.js:135-136).                                                     *)
(***************************************************************************)
WhiteSpace == {9, 10, 11, 12, 13, 32}

IsLetter(c) == (c >= 65 /\ c <= 90) \/ (c >= 97 /\ c <= 122)

\* replace(/^.*<\|END_USER\|>/s, ''): the greedy .* reaches the last
\* occurrence of the delimiter
stripThroughEndUser(s) ==
  LET hits == {i \in 0..Len(s) : OccursAt(s, END_USER, i)} IN
  IF hits = {} THEN s
  ELSE LET last == CHOOSE i \in hits : \A j \in hits : j <= i
       IN  SliceFrom(s, last + Len(END_USER))

\* replace(/^\n[a-zA-Z]?/, '')
stripLeadingNewline(s) ==
  IF Len(s) >= 1 /\ s[1] = 10
  THEN IF Len(s) >= 2 /\ IsLetter(s[2]) THEN SliceFrom(s, 2) ELSE SliceFrom(s, 1)
  ELSE s

\* String.prototype.trim: from the first to the last character that is
\* not white space
trim(s) ==
  LET keep == {i \in 1..Len(s) : s[i] \notin WhiteSpace} IN
  IF keep = {} THEN <<>>
  ELSE SubSeq(s, CHOOSE i \in keep : \A j \in keep : i <= j,
                 CHOOSE i \in keep : \A j \in keep : j <= i)

cleanUp(s) == trim(stripLeadingNewline(stripThroughEndUser(s)))

(***************************************************************************)
(* The request handler before the upstream call (index.js:18-58) and the   *)
(* front of stringToHex (utils.js:18-50).  Header values, model names and  *)
(* message contents are sequences of code points.                          *)
(***************************************************************************)
\* "o1-"
O1Prefix == <<111, 49, 45>>
\* "Bearer "
Bearer == <<66, 101, 97, 114, 101, 114, 32>>
\* ","
Comma == <<44>>
\* "%3A%3A"
EncodedColons == <<37, 51, 65, 37, 51, 65>>

\* String.prototype.startsWith
startsWith(s, pat) == OccursAt(s, pat, 0)

\* String.prototype.includes
includes(s, pat) == IndexOf(s, pat, 0) >= 0

\* s.replace(pat, '') with a string pattern: the first occurrence goes
removeFirst(s, pat) ==
  LET i == IndexOf(s, pat, 0) IN
  IF i < 0 THEN s ELSE Slice(s, 0, i) \o SliceFrom(s, i + Len(pat))

\* s.split(sep)[0]
firstPart(s, sep) ==
  LET i == IndexOf(s, sep, 0) IN IF i < 0 THEN s ELSE Slice(s, 0, i)

\* s.split(sep)[1], for an s that includes sep
secondPart(s, sep) ==
  firstPart(SliceFrom(s, IndexOf(s, sep, 0) + Len(sep)), sep)

\* index.js:32-48, for a header that is there: the value of authToken at
\* index.js:51 (currentKeyIndex is 0 in every request)
authToken(header) ==
  LET key == trim(firstPart(removeFirst(header, Bearer), Comma)) IN
  IF includes(key, EncodedColons) THEN secondPart(key, EncodedColons) ELSE key

\* index.js:51: !messages || !Array.isArray(messages) ||
\* messages.length === 0 || !authToken
invalidRequest(r) ==
  \/ r.messages.kind # "array"
  \/ Len(r.messages.items) = 0
  \/ authToken(r.authorization.value) = <<>>

\* variant: the comparison of utils.js:22 made with 'assistant'
roleNumber_assistant(role) == IF role = "assistant" THEN 2 ELSE 1

\* utils.js:22
roleNumber(role) == IF role = "user" THEN 1 ELSE 2

\* utils.js:20-24: every message keeps its fields and its place and gets
\* its role number (the fresh message_id is left out)
formattedMessages(messages) ==
  [i \in 1..Len(messages) |->
     [role |-> roleNumber(messages[i].role), content |-> messages[i].content]]

\* $root.ChatMessage.verify: the diagnostic for a content that is not a
\* string, or no error
ChatMessage_verify(fm) ==
  IF \E i \in 1..Len(fm) : fm[i].content.type # "string"
  THEN [err |-> TRUE, msg |-> "content: string expected"]
  ELSE [err |-> FALSE, msg |-> ""]

\* $root.ChatMessage.encode(...).finish(): each message as a
\* length-delimited field holding its content and its role number
ChatMessage_encode(fm) ==
  Flatten([i \in 1..Len(fm) |->
    <<10, Len(fm[i].content.value) + 4, 10, Len(fm[i].content.value)>>
      \o fm[i].content.value \o <<16, fm[i].role>>])

\* res.status(code).json(...): the whole response, headers and body
json(r, code, body) ==
  [headersSent |-> TRUE, status |-> code, body |-> body, ended |-> r.ended + 1]

\* res.write(...): the headers go out with the first write, with status 200
write(r) ==
  [headersSent |-> TRUE, status |-> IF r.headersSent THEN r.status ELSE 200,
   body |-> "stream", ended |-> r.ended]

\* res.end()
end(r) == [write(r) EXCEPT !.ended = r.ended + 1]

(***************************************************************************)
(* The inputs of the model.                                                *)
(***************************************************************************)
\* the five bytes whose hexadecimal text is the 10-digit length n
LengthBytes(n) ==
  <<0, (n \div 16777216) % 256, (n \div 65536) % 256, (n \div 256) % 256, n % 256>>

\* payloads of response frames: "hi", no field at all, an empty text, an
\* unknown field before the text "x", a text that overruns the payload,
\* an invalid wire type
FramePayloads ==
  { <<10, 2, 104, 105>>, <<>>, <<10, 0>>, <<16, 5, 10, 1, 120>>,
    <<10, 5, 104>>, <<15>> }

FrameSegs == {[kind |-> "frame", bytes |-> p] : p \in FramePayloads}

\* incomplete frames: a cut length prefix, a whole prefix with no payload
\* behind it, a whole prefix with less payload than it declares
PartialSegs ==
  {[kind |-> "partial", bytes |-> b] :
     b \in { <<0, 0, 0>>, <<0, 0, 0, 0, 9>>, <<0, 0, 0, 0, 9, 10>> }}

\* compressed messages: a 5-byte header and a stream.  The headers: the
\* compressed-message flag and a length, a header that reads as a frame of
\* two bytes, one that reads as a frame of no bytes, and all ones.
GzHeaders ==
  { <<1, 0, 0, 0, 4>>, <<0, 0, 0, 0, 2>>, <<0, 0, 0, 0, 0>>,
    <<255, 255, 255, 255, 255>> }

\* streams: "hi"; a whole sentinel block; one with newlines and text after
\* it; delimiters missing or out of order; text after END_USER; the empty
\* text; corrupt data; a wrong magic number; nothing at all
GzStreams ==
  { <<31, 139, 104, 105>>,
    <<31, 139, 1, 120, 2, 121, 3, 122, 4>>,
    <<31, 139, 104, 1, 10, 2, 10, 3, 10, 4, 105>>,
    <<31, 139, 1, 2, 3>>,
    <<31, 139, 3, 4, 1, 2>>,
    <<31, 139, 2, 1, 3, 4>>,
    <<31, 139, 1, 2, 4, 3>>,
    <<31, 139, 4, 10, 121>>,
    <<31, 139>>,
    <<31, 139, 200>>,
    <<31, 140, 104>>,
    <<>> }

GzSegs == {[kind |-> "gz", bytes |-> h \o z] : h \in GzHeaders, z \in GzStreams}

\* a chunk is described by the segments it is assembled from
ChunkDescs ==
  UNION {[1..n -> FrameSegs \cup PartialSegs] : n \in 0..MaxSegs}
    \cup {<<g>> : g \in GzSegs}

WireOf(seg) ==
  CASE seg.kind = "frame" -> LengthBytes(Len(seg.bytes)) \o seg.bytes
    [] seg.kind = "request" -> stringToHex(seg.bytes)
    [] OTHER -> seg.bytes

ChunkOf(desc) == Flatten([i \in 1..Len(desc) |-> WireOf(desc[i])])

\* schema-encoded request payloads, by length
RequestPayload(len) == [i \in 1..len |-> (i * 37 + 134) % 256]

RequestPayloads == {RequestPayload(len) : len \in {0, 1, 2, 15, 16, 17, 171, 255, 256, 300}}

\* frames that the transport cuts in two: the payload and the number of
\* bytes of the frame that arrive in the first of the two chunks.  "hi" cut
\* inside its length prefix and inside its payload, and a text that holds
\* the bytes 00 00 00 00 03 0A 01 78, cut right before them.
SplitCases ==
  { [payload |-> <<10, 2, 104, 105>>, cut |-> 3],
    [payload |-> <<10, 2, 104, 105>>, cut |-> 7],
    [payload |-> <<10, 10, 104, 105, 0, 0, 0, 0, 3, 10, 1, 120>>, cut |-> 9] }

\* the chunk that ends with the first bytes of a cut frame
HeadOf(sc) ==
  <<[kind |-> "partial",
     bytes |-> SubSeq(LengthBytes(Len(sc.payload)) \o sc.payload, 1, sc.cut)]>>

\* the chunk that starts with the bytes left over
TailOf(sc) ==
  <<[kind |-> "leftover",
     bytes |-> SubSeq(LengthBytes(Len(sc.payload)) \o sc.payload, sc.cut + 1,
                      Len(sc.payload) + 5)]>>

SplitDescs == {HeadOf(sc) : sc \in SplitCases} \cup {TailOf(sc) : sc \in SplitCases}

\* the chunks an upstream response body is drawn from
BodyDescs ==
  SplitDescs \cup
  { <<[kind |-> "frame", bytes |-> <<10, 2, 104, 105>>]>>,
    <<[kind |-> "frame", bytes |-> <<16, 5, 10, 1, 120>>],
      [kind |-> "frame", bytes |-> <<10, 1, 121>>]>>,
    <<[kind |-> "frame", bytes |-> <<10, 0>>]>>,
    <<[kind |-> "frame", bytes |-> <<10, 1, 122>>],
      [kind |-> "partial", bytes |-> <<0, 0, 0>>]>>,
    <<[kind |-> "frame", bytes |-> <<10, 1, 122>>],
      [kind |-> "frame", bytes |-> <<15>>]>>,
    <<[kind |-> "gz", bytes |-> <<1, 0, 0, 0, 4, 31, 139, 4, 10, 121>>]>>,
    <<[kind |-> "gz", bytes |-> <<1, 0, 0, 0, 4, 31, 139, 10, 119, 32>>]>>,
    <<[kind |-> "gz", bytes |-> <<1, 0, 0, 0, 4, 31, 139, 1, 2, 3, 4>>]>> }

\* message contents: a string, or a number where a string belongs
Str(cs) == [type |-> "string", value |-> cs]

NotAString == [type |-> "number", value |-> <<>>]

\* req.body.messages: absent, something that is no array, or an array.
\* The arrays: empty; one user message; one message of every kind of role
\* (the role "undefined" stands for a message without a role); a message
\* whose content the schema rejects.
MessagesInputs ==
  { [kind |-> "missing", items |-> <<>>],
    [kind |-> "other", items |-> <<>>],
    [kind |-> "array", items |-> <<>>],
    [kind |-> "array", items |-> <<[role |-> "user", content |-> Str(<<104, 105>>)]>>],
    [kind |-> "array", items |->
       <<[role |-> "system", content |-> Str(<<115>>)],
         [role |-> "user", content |-> Str(<<117>>)],
         [role |-> "assistant", content |-> Str(<<97>>)],
         [role |-> "undefined", content |-> Str(<<110>>)],
         [role |-> "User", content |-> Str(<<>>)]>>],
    [kind |-> "array", items |->
       <<[role |-> "user", content |-> Str(<<113>>)],
         [role |-> "user", content |-> NotAString]>>] }

\* the Authorization header: absent, "", "Bearer k", "Bearer  ", " k ,j",
\* "u%3A%3Ak", "u%3A%3A"
AuthInputs ==
  { [defined |-> FALSE, value |-> <<>>],
    [defined |-> TRUE, value |-> <<>>],
    [defined |-> TRUE, value |-> Bearer \o <<107>>],
    [defined |-> TRUE, value |-> Bearer \o <<32>>],
    [defined |-> TRUE, value |-> <<32, 107, 32, 44, 106>>],
    [defined |-> TRUE, value |-> <<117>> \o EncodedColons \o <<107>>],
    [defined |-> TRUE, value |-> <<117>> \o EncodedColons] }

\* req.body.model: absent, "o1-x", "go1-"
ModelInputs ==
  { [defined |-> FALSE, value |-> <<>>],
    [defined |-> TRUE, value |-> O1Prefix \o <<120>>],
    [defined |-> TRUE, value |-> <<103>> \o O1Prefix] }

\* a request that passes every test of the handler
PlainRequest ==
  [model |-> [defined |-> TRUE, value |-> <<103>> \o O1Prefix],
   stream |-> FALSE,
   messages |-> [kind |-> "array",
                 items |-> <<[role |-> "user", content |-> Str(<<104, 105>>)]>>],
   authorization |-> [defined |-> TRUE, value |-> Bearer \o <<107>>]]

\* r has a model name, a non-empty array of messages and a token
WellFormed(r) ==
  /\ r.model.defined
  /\ r.messages.kind = "array" /\ r.messages.items # <<>>
  /\ r.authorization.defined /\ authToken(r.authorization.value) # <<>>

\* the fields other than stream in which r differs from PlainRequest
Variations(r) ==
  {f \in {"model", "messages", "authorization"} : r[f] # PlainRequest[f]}

\* the requests of the model: every combination of inputs that lacks a
\* model name, a usable array of messages or a token, and of the others
\* those that vary one field of PlainRequest
Requests ==
  {r \in [model : ModelInputs, stream : BOOLEAN, messages : MessagesInputs,
          authorization : AuthInputs] :
     WellFormed(r) => Cardinality(Variations(r)) <= 1}

(***************************************************************************)
(* Actions.                                                                *)
(***************************************************************************)
\* variant: results declared outside the function, so that it is not
\* emptied for a new chunk
Enter_keepsResults(c, desc) ==
  /\ chunk' = c
  /\ segs' = desc
  /\ hex' = BufToHex(c)
  /\ offset' = 0
  /\ results' = results
  /\ dataLength' = 0
  /\ messageBuffer' = <<>>
  /\ settled' = "pending"
  /\ text' = <<>>
  /\ raised' = FALSE
  /\ fallback' = FALSE
  /\ gzArg' = <<>>
  /\ iters' = 0
  /\ pc' = "loop"

\* utils.js:66-72: the call, up to the first test of the loop condition
Enter(c, desc) ==
  /\ chunk' = c
  /\ segs' = desc
  /\ hex' = BufToHex(c)
  /\ offset' = 0
  /\ results' = <<>>
  /\ dataLength' = 0
  /\ messageBuffer' = <<>>
  /\ settled' = "pending"
  /\ text' = <<>>
  /\ raised' = FALSE
  /\ fallback' = FALSE
  /\ gzArg' = <<>>
  /\ iters' = 0
  /\ pc' = "loop"

\* a direct call of stringToHex's framing on an encoded payload
CallStringToHex ==
  /\ pc = "idle"
  /\ \E b \in RequestPayloads :
       /\ buffer' = b
       /\ hexData' = stringToHex(b)
  /\ pc' = "encoded"
  /\ UNCHANGED <<chunk, hex, offset, results, dataLength, messageBuffer, settled,
                 text, raised, fallback, gzArg, iters, segs>>
  /\ UNCHANGED <<outerVars, lastIndex>>

\* a direct call of chunkToUtf8String on a chunk
CallChunkToUtf8String ==
  /\ pc = "idle"
  /\ \E desc \in ChunkDescs : Enter(ChunkOf(desc), desc)
  /\ UNCHANGED <<buffer, hexData>>
  /\ UNCHANGED <<outerVars, lastIndex>>

\* chunkToUtf8String applied to the bytes stringToHex returned
CallRoundTrip ==
  /\ pc = "encoded"
  /\ Enter(hexData, <<[kind |-> "request", bytes |-> buffer]>>)
  /\ UNCHANGED <<buffer, hexData>>
  /\ UNCHANGED <<outerVars, lastIndex>>

\* utils.js:75-94: one pass through the loop body
LoopBody ==
  /\ pc = "loop"
  /\ moreHex(hex, offset)
  /\ iters' = iters + 1
  /\ IF ~prefixAvailable(hex, offset)
     THEN /\ pc' = "after_loop"
          /\ UNCHANGED <<offset, dataLength, messageBuffer, results, raised>>
     ELSE \E len \in {readLength(hex, offset)} :
          \E off \in {offset + 10} :
              /\ dataLength' = len
              /\ IF ~payloadAvailable(hex, off, len)
                 THEN /\ offset' = off
                      /\ pc' = "after_loop"
                      /\ UNCHANGED <<messageBuffer, results, raised>>
                 ELSE \E slice \in {messageHex(hex, off, len)} :
                      \E buf \in {BufFromHex(slice)} :
                      \E message \in {Decode(buf)} :
                          /\ offset' = off + len * 2
                          /\ messageBuffer' = buf
                          /\ IF message.ok
                             THEN /\ results' = Append(results, message.msg)
                                  /\ pc' = "loop"
                                  /\ UNCHANGED raised
                             ELSE /\ raised' = TRUE
                                  /\ pc' = "catch"
                                  /\ UNCHANGED results
  /\ UNCHANGED <<buffer, hexData, chunk, hex, settled, text, fallback, gzArg, segs>>
  /\ UNCHANGED <<outerVars, lastIndex>>

\* utils.js:75: the loop condition fails
LoopExit ==
  /\ pc = "loop"
  /\ ~moreHex(hex, offset)
  /\ pc' = "after_loop"
  /\ UNCHANGED codecVars
  /\ UNCHANGED <<outerVars, lastIndex>>

\* utils.js:97-101
AfterLoop ==
  /\ pc = "after_loop"
  /\ IF noResults(results)
     THEN /\ fallback' = TRUE
          /\ gzArg' = gunzipArg(chunk)
          /\ pc' = "gunzip"
          /\ UNCHANGED <<settled, text>>
     ELSE /\ text' = joined(results)
          /\ settled' = "resolved"
          /\ pc' = "settled"
          /\ UNCHANGED <<fallback, gzArg>>
  /\ UNCHANGED <<buffer, hexData, chunk, hex, offset, results, dataLength,
                 messageBuffer, raised, iters, segs>>
  /\ UNCHANGED <<outerVars, lastIndex>>

\* variant: the catch block returning what was decoded before the error
Catch_keepsPartial ==
  /\ pc = "catch"
  /\ text' = joined(results)
  /\ settled' = "resolved"
  /\ pc' = "settled"
  /\ UNCHANGED <<buffer, hexData, chunk, hex, offset, results, dataLength,
                 messageBuffer, raised, fallback, gzArg, iters, segs>>
  /\ UNCHANGED <<outerVars, lastIndex>>

\* utils.js:102-105
Catch ==
  /\ pc = "catch"
  /\ fallback' = TRUE
  /\ gzArg' = gunzipArg(chunk)
  /\ pc' = "gunzip"
  /\ UNCHANGED <<buffer, hexData, chunk, hex, offset, results, dataLength,
                 messageBuffer, settled, text, raised, iters, segs>>
  /\ UNCHANGED <<outerVars, lastIndex>>

\* utils.js:116-130: zlib calls back and the promise settles
GunzipCallback ==
  /\ pc = "gunzip"
  /\ \E z \in {zlib_gunzip(gzArg)} :
     \E t \in {Utf8ToString(z.decompressed)} :
     \E r \in {gunzipCallback(z.err, t)} :
       /\ settled' = r.settled
       /\ text' = r.text
       /\ lastIndex' = IF z.err THEN lastIndex ELSE regexTest(t, lastIndex).lastIndex
  /\ pc' = "settled"
  /\ UNCHANGED <<buffer, hexData, chunk, hex, offset, results, dataLength,
                 messageBuffer, raised, fallback, gzArg, iters, segs>>
  /\ UNCHANGED outerVars

\* variant: chunkToUtf8String called without await, so that the loop goes
\* on to the next chunk while the decompression is still pending
bodyResumed_noAwait == pc \in {"await_chunk", "gunzip"}

\* index.js:98-99 / index.js:130-131: the for await loop asks the body for
\* its next chunk only when the handler is back at the loop head, after
\* the await of chunkToUtf8String has returned
bodyResumed == pc = "await_chunk"

\* index.js:98 / index.js:130: the body yields a chunk and the handler
\* calls chunkToUtf8String on it
ReadChunk ==
  /\ bodyResumed
  /\ nread < MaxChunks
  /\ \E desc \in BodyDescs :
       /\ Enter(ChunkOf(desc), desc)
       /\ reads' = Append(reads, desc)
  /\ nread' = nread + 1
  /\ UNCHANGED <<buffer, hexData, stream, texts, out, content, reply>>
  /\ UNCHANGED <<requestVars, lastIndex, rid, parked>>

\* variant: the newest text put in front of what was emitted before
Consume_newestFirst ==
  /\ pc = "settled"
  /\ settled = "resolved"
  /\ texts' = Append(texts, text)
  /\ IF stream
     THEN /\ out' = IF Len(text) > 0
                    THEN <<[event |-> "content", data |-> text]>> \o out
                    ELSE out
          /\ res' = IF Len(text) > 0 THEN write(res) ELSE res
          /\ UNCHANGED content
     ELSE /\ content' = text \o content
          /\ UNCHANGED <<out, res>>
  /\ pc' = "await_chunk"
  /\ UNCHANGED codecVars
  /\ UNCHANGED <<stream, nread, reads, reply>>
  /\ UNCHANGED <<req, formatted, fetched, lastIndex, rid, parked>>

\* variant: the test of index.js:101 left out, an event written for every
\* chunk
Consume_writesEmpty ==
  /\ pc = "settled"
  /\ settled = "resolved"
  /\ texts' = Append(texts, text)
  /\ IF stream
     THEN /\ out' = Append(out, [event |-> "content", data |-> text])
          /\ res' = write(res)
          /\ UNCHANGED content
     ELSE /\ content' = content \o text
          /\ UNCHANGED <<out, res>>
  /\ pc' = "await_chunk"
  /\ UNCHANGED codecVars
  /\ UNCHANGED <<stream, nread, reads, reply>>
  /\ UNCHANGED <<req, formatted, fetched, lastIndex, rid, parked>>

\* index.js:99-119 / index.js:131: the await returns
Consume ==
  /\ pc = "settled"
  /\ settled = "resolved"
  /\ texts' = Append(texts, text)
  /\ IF stream
     THEN /\ out' = IF Len(text) > 0
                    THEN Append(out, [event |-> "content", data |-> text])
                    ELSE out
          /\ res' = IF Len(text) > 0 THEN write(res) ELSE res
          /\ UNCHANGED content
     ELSE /\ content' = content \o text
          /\ UNCHANGED <<out, res>>
  /\ pc' = "await_chunk"
  /\ UNCHANGED codecVars
  /\ UNCHANGED <<stream, nread, reads, reply>>
  /\ UNCHANGED <<req, formatted, fetched, lastIndex, rid, parked>>

\* index.js:123-124 / index.js:135-159: the body is exhausted
BodyEnd ==
  /\ pc = "await_chunk"
  /\ IF stream
     THEN /\ out' = Append(out, [event |-> "done", data |-> <<>>])
          /\ res' = end(res)
          /\ UNCHANGED reply
     ELSE /\ reply' = [sent |-> TRUE, content |-> cleanUp(content)]
          /\ res' = json(res, 200, "completion")
          /\ UNCHANGED out
  /\ pc' = "ended"
  /\ UNCHANGED codecVars
  /\ UNCHANGED <<stream, nread, reads, texts, content>>
  /\ UNCHANGED <<req, formatted, fetched, lastIndex, rid, parked>>

\* index.js:20-24: the test made before the try block.  Without a model
\* name startsWith throws, and nothing in the handler catches it.
CheckModel ==
  /\ pc = "start"
  /\ IF ~req.model.defined
     THEN /\ pc' = "escaped"
          /\ UNCHANGED res
     ELSE IF startsWith(req.model.value, O1Prefix) /\ req.stream
     THEN /\ res' = json(res, 400, "model_not_supported")
          /\ pc' = "ended"
     ELSE /\ pc' = "try"
          /\ UNCHANGED res
  /\ UNCHANGED <<codecVars, handlerVars, req, formatted, fetched, lastIndex,
                 rid, parked>>

\* the rejection of the handler's promise reaches the framework: Express 5
\* answers it with its error handler, Express 4 does not look at it
Escaped ==
  /\ pc = "escaped"
  /\ \E handled \in BOOLEAN :
       IF handled
       THEN /\ res' = json(res, 500, "framework_error")
            /\ pc' = "ended"
       ELSE /\ pc' = "open"
            /\ UNCHANGED res
  /\ UNCHANGED <<codecVars, handlerVars, req, formatted, fetched, lastIndex,
                 rid, parked>>

\* index.js:29-55: without the header, authToken is undefined and
\* authToken.split throws inside the try block
Validate ==
  /\ pc = "try"
  /\ IF ~req.authorization.defined
     THEN /\ pc' = "handler_catch"
          /\ UNCHANGED res
     ELSE IF invalidRequest(req)
     THEN /\ res' = json(res, 400, "invalid_request")
          /\ pc' = "ended"
     ELSE /\ pc' = "encode"
          /\ UNCHANGED res
  /\ UNCHANGED <<codecVars, handlerVars, req, formatted, fetched, lastIndex,
                 rid, parked>>

\* variant: the result of verify not looked at (utils.js:44 left out)
Encode_ignoresVerify ==
  /\ pc = "encode"
  /\ \E fm \in {formattedMessages(req.messages.items)} :
     \E b \in {ChatMessage_encode(fm)} :
       /\ formatted' = fm
       /\ buffer' = b
       /\ hexData' = stringToHex(b)
       /\ pc' = "fetch"
  /\ UNCHANGED <<chunk, hex, offset, results, dataLength, messageBuffer, settled,
                 text, raised, fallback, gzArg, iters, segs>>
  /\ UNCHANGED <<handlerVars, req, res, fetched, lastIndex, rid, parked>>

\* index.js:58, utils.js:18-59: the call of stringToHex
Encode ==
  /\ pc = "encode"
  /\ \E fm \in {formattedMessages(req.messages.items)} :
       /\ formatted' = fm
       /\ IF ChatMessage_verify(fm).err
          THEN /\ pc' = "handler_catch"
               /\ UNCHANGED <<buffer, hexData>>
          ELSE \E b \in {ChatMessage_encode(fm)} :
                 /\ buffer' = b
                 /\ hexData' = stringToHex(b)
                 /\ pc' = "fetch"
  /\ UNCHANGED <<chunk, hex, offset, results, dataLength, messageBuffer, settled,
                 text, raised, fallback, gzArg, iters, segs>>
  /\ UNCHANGED <<handlerVars, req, res, fetched, lastIndex, rid, parked>>

\* index.js:69-86: the upstream request is sent; fetch resolves with a
\* response or rejects
Fetch ==
  /\ pc = "fetch"
  /\ fetched' = fetched + 1
  /\ \E ok \in BOOLEAN : pc' = IF ok THEN "await_chunk" ELSE "handler_catch"
  /\ UNCHANGED <<codecVars, handlerVars, req, formatted, res, lastIndex, rid,
                 parked>>

\* index.js:98 / index.js:130: the iteration of the body throws
BodyError ==
  /\ pc = "await_chunk"
  /\ pc' = "handler_catch"
  /\ UNCHANGED <<codecVars, handlerVars, requestVars, lastIndex, rid, parked>>

\* the places where a handler is suspended, or has returned, and the event
\* loop may run the continuation of another request: await fetch, the
\* for await of the body, the pending zlib callback, the await of
\* chunkToUtf8String
AwaitPoints == {"fetch", "await_chunk", "gunzip", "settled", "ended", "open"}

\* everything that belongs to one call of the handler and to the calls it
\* makes: the variables declared inside the functions
Locals ==
  [pc |-> pc,
   buffer |-> buffer,
   hexData |-> hexData,
   chunk |-> chunk,
   hex |-> hex,
   offset |-> offset,
   results |-> results,
   dataLength |-> dataLength,
   messageBuffer |-> messageBuffer,
   settled |-> settled,
   text |-> text,
   raised |-> raised,
   fallback |-> fallback,
   gzArg |-> gzArg,
   iters |-> iters,
   segs |-> segs,
   stream |-> stream,
   nread |-> nread,
   reads |-> reads,
   texts |-> texts,
   out |-> out,
   content |-> content,
   reply |-> reply,
   req |-> req,
   formatted |-> formatted,
   res |-> res,
   fetched |-> fetched]

\* the event loop goes over to the continuation of the other request.
\* The locals of each call stay with it; the module-level RegExp object
\* of utils.js:10 is the same for both.
Switch ==
  /\ pc \in AwaitPoints
  /\ parked # <<>>
  /\ parked' = Locals
  /\ pc' = parked.pc
  /\ buffer' = parked.buffer
  /\ hexData' = parked.hexData
  /\ chunk' = parked.chunk
  /\ hex' = parked.hex
  /\ offset' = parked.offset
  /\ results' = parked.results
  /\ dataLength' = parked.dataLength
  /\ messageBuffer' = parked.messageBuffer
  /\ settled' = parked.settled
  /\ text' = parked.text
  /\ raised' = parked.raised
  /\ fallback' = parked.fallback
  /\ gzArg' = parked.gzArg
  /\ iters' = parked.iters
  /\ segs' = parked.segs
  /\ stream' = parked.stream
  /\ nread' = parked.nread
  /\ reads' = parked.reads
  /\ texts' = parked.texts
  /\ out' = parked.out
  /\ content' = parked.content
  /\ reply' = parked.reply
  /\ req' = parked.req
  /\ formatted' = parked.formatted
  /\ res' = parked.res
  /\ fetched' = parked.fetched
  /\ rid' = 3 - rid
  /\ UNCHANGED lastIndex

\* index.js:161-174
HandlerCatch ==
  /\ pc = "handler_catch"
  /\ IF ~res.headersSent
     THEN /\ pc' = "ended"
          /\ IF req.stream
             THEN /\ out' = Append(out, [event |-> "error", data |-> <<>>])
                  /\ res' = end(res)
             ELSE /\ res' = json(res, 500, "internal_error")
                  /\ UNCHANGED out
     ELSE /\ pc' = "open"
          /\ UNCHANGED <<out, res>>
  /\ UNCHANGED codecVars
  /\ UNCHANGED <<stream, nread, reads, texts, content, reply>>
  /\ UNCHANGED <<req, formatted, fetched, lastIndex, rid, parked>>

(***************************************************************************)
(* Specifications.                                                         *)
(***************************************************************************)
InitCodec ==
  /\ buffer = <<>>
  /\ hexData = <<>>
  /\ chunk = <<>>
  /\ hex = <<>>
  /\ offset = 0
  /\ results = <<>>
  /\ dataLength = 0
  /\ messageBuffer = <<>>
  /\ settled = "none"
  /\ text = <<>>
  /\ raised = FALSE
  /\ fallback = FALSE
  /\ gzArg = <<>>
  /\ iters = 0
  /\ segs = <<>>

InitHandler ==
  /\ stream \in BOOLEAN
  /\ nread = 0
  /\ reads = <<>>
  /\ texts = <<>>
  /\ out = <<>>
  /\ content = <<>>
  /\ reply = [sent |-> FALSE, content |-> <<>>]

InitResponse ==
  /\ formatted = <<>>
  /\ res = [headersSent |-> FALSE, status |-> 0, body |-> "none", ended |-> 0]
  /\ fetched = 0

\* one request is running and the RegExp object is as the module made it
InitAlone ==
  /\ lastIndex = 0
  /\ rid = 1
  /\ parked = <<>>

\* the handler is called with a request
Init ==
  /\ pc = "start"
  /\ InitCodec
  /\ InitHandler
  /\ req \in Requests
  /\ stream = req.stream
  /\ InitResponse
  /\ InitAlone

Parse == LoopBody \/ LoopExit \/ AfterLoop \/ Catch \/ GunzipCallback

Front == CheckModel \/ Escaped \/ Validate \/ Encode \/ Fetch

Next ==
  Front \/ ReadChunk \/ Parse \/ Consume \/ BodyEnd \/ BodyError \/ HandlerCatch

Spec == Init /\ [][Next]_vars

\* the chunks of the bodies of two requests served at the same time: a
\* frame, a frame followed by one that does not decode, a compressed
\* sentinel block
PairDescs ==
  { <<[kind |-> "frame", bytes |-> <<10, 2, 104, 105>>]>>,
    <<[kind |-> "frame", bytes |-> <<10, 1, 122>>],
      [kind |-> "frame", bytes |-> <<15>>]>>,
    <<[kind |-> "gz", bytes |-> <<1, 0, 0, 0, 4, 31, 139, 1, 2, 3, 4>>]>> }

ReadChunkOfPair == ReadChunk /\ segs' \in PairDescs

\* two requests, one in stream mode and one not, both waiting for the
\* first chunk of their upstream bodies
InitPair ==
  /\ pc = "await_chunk"
  /\ buffer = ChatMessage_encode(formattedMessages(PlainRequest.messages.items))
  /\ hexData = stringToHex(buffer)
  /\ chunk = <<>>
  /\ hex = <<>>
  /\ offset = 0
  /\ results = <<>>
  /\ dataLength = 0
  /\ messageBuffer = <<>>
  /\ settled = "none"
  /\ text = <<>>
  /\ raised = FALSE
  /\ fallback = FALSE
  /\ gzArg = <<>>
  /\ iters = 0
  /\ segs = <<>>
  /\ InitHandler
  /\ stream = TRUE
  /\ req = [PlainRequest EXCEPT !.stream = TRUE]
  /\ formatted = formattedMessages(PlainRequest.messages.items)
  /\ res = [headersSent |-> FALSE, status |-> 0, body |-> "none", ended |-> 0]
  /\ fetched = 1
  /\ lastIndex = 0
  /\ rid = 1
  /\ parked = [Locals EXCEPT !.stream = FALSE, !.req = PlainRequest]

NextPair == ReadChunkOfPair \/ Parse \/ Consume \/ BodyEnd \/ Switch

SpecPair == InitPair /\ [][NextPair]_vars

\* the codec's two entry points, called directly
InitCalls ==
  /\ pc = "idle"
  /\ InitCodec
  /\ InitHandler
  /\ stream = FALSE
  /\ req = PlainRequest
  /\ InitResponse
  /\ InitAlone

NextCalls == CallStringToHex \/ CallChunkToUtf8String \/ CallRoundTrip \/ Parse

SpecCalls == InitCalls /\ [][NextCalls]_vars

\* the same, with the scheduling of the runtime: synchronous code runs to
\* completion and zlib always calls back
SpecCallsLive == SpecCalls /\ WF_vars(Parse)

(***************************************************************************)
(* What a chunk is expected to hold, from how it was assembled.            *)
(***************************************************************************)
IsFrame(seg) == seg.kind = "frame"

Decodable(seg) == IsFrame(seg) /\ Decode(seg.bytes).ok

\* N >= 1 complete, decodable frames and nothing else
CompleteFrames(desc) ==
  /\ Len(desc) >= 1
  /\ \A i \in 1..Len(desc) : Decodable(desc[i])

\* k >= 1 complete, decodable frames and then one incomplete frame
FramesThenPartial(desc) ==
  /\ Len(desc) >= 2
  /\ desc[Len(desc)].kind = "partial"
  /\ CompleteFrames(SubSeq(desc, 1, Len(desc) - 1))

\* the text of each frame, in the order of the frames
FrameTexts(desc) == [i \in 1..Len(desc) |-> Decode(desc[i].bytes).msg]

Returned == pc = "settled"

\* C1: a chunk that is N >= 1 complete decodable frames and nothing more
\* is decoded into exactly N texts, in the order of the frames, and the
\* call returns their concatenation in that order, without the fallback.
C1_CompleteFrames ==
  (Returned /\ CompleteFrames(segs)) =>
     /\ settled = "resolved"
     /\ iters = Len(segs)
     /\ results = FrameTexts(segs)
     /\ text = Flatten(FrameTexts(segs))
     /\ offset = Len(hex)
     /\ ~fallback

C1_Witness ==
  /\ Returned
  /\ CompleteFrames(segs)
  /\ Len(segs) = 3
  /\ results[1] # results[2]
  /\ results[3] # <<>>
  /\ results[3] # results[1]

\* C2: after k >= 1 complete decodable frames, a trailing incomplete frame
\* (a cut length prefix, or a whole prefix declaring more than is left)
\* adds nothing: the call returns the concatenation of the k texts, never
\* calls the fallback and raises no error.
C2_TrailingPartial ==
  (Returned /\ FramesThenPartial(segs)) =>
     LET k == Len(segs) - 1 IN
     /\ settled = "resolved"
     /\ results = FrameTexts(SubSeq(segs, 1, k))
     /\ text = Flatten(FrameTexts(SubSeq(segs, 1, k)))
     /\ ~fallback
     /\ ~raised

C2_Witness ==
  /\ Returned
  /\ FramesThenPartial(segs)
  /\ Len(segs) = 3
  /\ segs[3].bytes = <<0, 0, 0, 0, 9, 10>>
  /\ text # <<>>

\* the first five bytes of c do not start a complete frame
NoFrameStructure(c) ==
  \/ Len(c) < 5
  \/ c[1] > 0
  \/ c[2] > 0
  \/ c[3] * 65536 + c[4] * 256 + c[5] > Len(c) - 5

\* C3: the fallback is called if and only if the parse extracted no frame
\* or a frame's decode raised an error.  A chunk whose frames all decode
\* never reaches it, even when the text is empty; a chunk with no frame
\* structure always does.
C3_FallbackIff ==
  Returned =>
     /\ fallback <=> (raised \/ Len(results) = 0)
     /\ CompleteFrames(segs) => ~fallback
     /\ NoFrameStructure(chunk) => fallback

C3_Witness ==
  /\ Returned
  /\ ~fallback
  /\ Len(results) >= 1
  /\ text = <<>>

\* C4: when a frame's decode raises, at whatever index, the texts of the
\* earlier frames are dropped and the call returns what the fallback
\* makes of the original chunk.
C4_ErrorDiscardsPartial ==
  (Returned /\ raised) =>
     /\ fallback
     /\ chunk = ChunkOf(segs)
     /\ [settled |-> settled, text |-> text] = gunzip(ChunkOf(segs))

C4_Witness ==
  /\ Returned
  /\ raised
  /\ Len(results) = 2
  /\ Join(results) # <<>>
  /\ text = <<>>

\* C5: chunkToUtf8String never throws and never rejects: for every chunk
\* the call, once entered, runs on until its promise resolves to a text.
C5_NeverRejects ==
  /\ [](settled # "rejected")
  /\ [](Returned => settled = "resolved")
  /\ [](settled = "pending" => <>(Returned /\ settled = "resolved"))

C5_Witness ==
  /\ Returned
  /\ raised
  /\ zlib_gunzip(gzArg).err
  /\ settled = "resolved"
  /\ text = <<>>

\* the bytes of c after its first five, written out index by index
AfterHeader(c) ==
  [i \in 1..(IF Len(c) > 5 THEN Len(c) - 5 ELSE 0) |-> c[i + 5]]

\* C6: the fallback hands zlib the chunk without its first 5 bytes; when
\* that does not decompress (a chunk of 5 bytes or fewer included) it
\* resolves to the empty string, and whatever the 5 skipped bytes are, the
\* result is the same.
C6_FallbackSkipsHeader ==
  (Returned /\ fallback) =>
     /\ gzArg = AfterHeader(chunk)
     /\ settled = "resolved"
     /\ zlib_gunzip(AfterHeader(chunk)).err => text = <<>>
     /\ Len(chunk) <= 5 => text = <<>>
     /\ \A h \in GzHeaders :
          gunzip(h \o AfterHeader(chunk)) = [settled |-> settled, text |-> text]

C6_Witness ==
  /\ Returned
  /\ fallback
  /\ Len(chunk) > 5
  /\ chunk[1] = 255
  /\ ~zlib_gunzip(AfterHeader(chunk)).err
  /\ text = <<104, 105>>

\* s holds the four delimiters in this order, one after the other
HasSentinelBlock(s) ==
  EndOfFirst(s, END_USER,
    EndOfFirst(s, BEGIN_USER,
      EndOfFirst(s, END_SYSTEM,
        EndOfFirst(s, BEGIN_SYSTEM, 0)))) >= 0

Decompressed == Utf8ToString(zlib_gunzip(AfterHeader(chunk)).decompressed)

\* C7: when the fallback's decompression succeeds, the result is the empty
\* string if the text holds BEGIN_SYSTEM, END_SYSTEM, BEGIN_USER and
\* END_USER in this order, with anything (newlines too) between them, and
\* the decompressed text itself otherwise.
C7_SentinelFilter ==
  (Returned /\ fallback /\ ~zlib_gunzip(AfterHeader(chunk)).err) =>
     /\ HasSentinelBlock(Decompressed) => text = <<>>
     /\ ~HasSentinelBlock(Decompressed) => text = Decompressed

C7_Witness ==
  /\ Returned
  /\ fallback
  /\ ~zlib_gunzip(AfterHeader(chunk)).err
  /\ HasSentinelBlock(Decompressed)
  /\ \E i \in 1..Len(Decompressed) : Decompressed[i] = 10
  /\ text = <<>>

\* C8: the bytes stringToHex returns for a payload of L bytes are L + 5
\* bytes: the big-endian value of L in 5 bytes, then the payload as it is.
C8_RequestFraming ==
  pc = "encoded" =>
     LET L == Len(buffer) IN
     /\ Len(hexData) = L + 5
     /\ hexData[1] = 0
     /\ hexData[2] = 0
     /\ hexData[3] * 65536 + hexData[4] * 256 + hexData[5] = L
     /\ \A i \in 1..L : hexData[i + 5] = buffer[i]

C8_Witness ==
  /\ pc = "encoded"
  /\ Len(buffer) = 300
  /\ \E i \in 1..Len(buffer) : buffer[i] >= 160

RoundTrip == segs # <<>> /\ segs[1].kind = "request"

\* C9: the frame splitting of chunkToUtf8String, applied to the bytes
\* stringToHex made of a payload, reads the payload's length, extracts the
\* payload byte for byte and uses up the whole chunk as one frame.
C9_FramingRoundTrip ==
  RoundTrip =>
     /\ chunk = hexData
     /\ \/ pc = "loop" /\ iters = 0
        \/ /\ iters = 1
           /\ dataLength = Len(buffer)
           /\ messageBuffer = buffer
           /\ offset = Len(hex)
           /\ offset = 10 + 2 * Len(buffer)

C9_Witness ==
  /\ RoundTrip
  /\ Returned
  /\ Len(buffer) = 300
  /\ messageBuffer = buffer

\* leftover bytes that are a length prefix and a decodable payload of
\* exactly that length
LeftoverFrame(desc) ==
  /\ Len(desc) = 1
  /\ desc[1].kind = "leftover"
  /\ Len(desc[1].bytes) >= 5
  /\ SubSeq(desc[1].bytes, 1, 5) = LengthBytes(Len(desc[1].bytes) - 5)
  /\ Decode(AfterHeader(desc[1].bytes)).ok

\* the text a chunk of the response body stands for, from its assembly:
\* the texts of its frames in frame order, a trailing partial frame left
\* out; the text of leftover bytes that make up a frame; for any other
\* chunk what the fallback makes of it
ExpectedText(desc) ==
  IF CompleteFrames(desc) THEN Flatten(FrameTexts(desc))
  ELSE IF FramesThenPartial(desc)
  THEN Flatten(FrameTexts(SubSeq(desc, 1, Len(desc) - 1)))
  ELSE IF LeftoverFrame(desc) THEN Decode(AfterHeader(desc[1].bytes)).msg
  ELSE gunzip(ChunkOf(desc)).text

\* the chunks whose text the handler has taken over so far
Consumed == Len(texts)

NonEmpty(t) == t # <<>>

ContentEvents == SelectSeq(out, LAMBDA e : e.event = "content")

\* t is a contiguous part of s
IsPartOf(t, s) ==
  \E i \in 0..Len(s) : i + Len(t) <= Len(s) /\ SubSeq(s, i + 1, i + Len(t)) = t

\* C10: what the handler emits follows the order of the chunks, and within
\* a chunk the order of its frames: in stream mode the events written are
\* the non-empty chunk texts in read order, in non-stream mode the
\* accumulated content is the chunk texts concatenated in read order and
\* the reply carries one contiguous part of it.
C10_OutputInChunkOrder ==
  LET expected == [i \in 1..Consumed |-> ExpectedText(reads[i])] IN
  /\ stream =>
       /\ [i \in 1..Len(ContentEvents) |-> ContentEvents[i].data]
            = SelectSeq(expected, NonEmpty)
       /\ content = <<>>
  /\ ~stream =>
       /\ content = Flatten(expected)
       /\ reply.sent => IsPartOf(reply.content, Flatten(expected))
       /\ out = <<>>

C10_Witness ==
  /\ stream
  /\ pc = "ended"
  /\ Len(out) = 3
  /\ Len(reads[1]) = 2
  /\ Len(out[1].data) = 2
  /\ out[2].data # out[1].data
  /\ out[3].event = "done"

\* a call of chunkToUtf8String has not settled yet
Decoding == pc \in {"loop", "after_loop", "catch", "gunzip"}

\* the output holds the text of every chunk in texts
AllEmitted ==
  IF stream
  THEN [i \in 1..Len(ContentEvents) |-> ContentEvents[i].data]
         = SelectSeq(texts, NonEmpty)
  ELSE content = Flatten(texts)

\* C11: within a request the body is asked for its next chunk only after
\* the decode of the chunk before it, the fallback's decompression
\* included, has settled and its text was written or accumulated; at most
\* one chunk is being decoded at any time.
C11_OneChunkAtATime ==
  /\ [](nread - Len(texts) \in {0, 1})
  /\ [](Decoding => (nread = Len(texts) + 1 /\ settled = "pending"))
  /\ [][nread' # nread =>
          /\ ~Decoding
          /\ settled # "pending"
          /\ Len(texts) = nread
          /\ AllEmitted]_vars

C11_Witness ==
  /\ nread = 2
  /\ Decoding
  /\ reads[1][1].kind = "gz"
  /\ texts = <<<<10, 119, 32>>>>
  /\ AllEmitted

\* chunks i and i + 1 of the body are the two parts of one cut frame
IsSplitAt(i) ==
  \E sc \in SplitCases : reads[i] = HeadOf(sc) /\ reads[i + 1] = TailOf(sc)

\* the text of the frame cut at chunk i
SplitText(i) ==
  LET sc == CHOOSE c \in SplitCases : reads[i] = HeadOf(c) /\ reads[i + 1] = TailOf(c)
  IN  Decode(sc.payload).msg

AloneText(desc) ==
  IF CompleteFrames(desc) THEN Flatten(FrameTexts(desc))
  ELSE LET z == zlib_gunzip(AfterHeader(ChunkOf(desc)))
           d == Utf8ToString(z.decompressed)
       IN  IF z.err \/ HasSentinelBlock(d) THEN <<>> ELSE d

\* C13: with two requests interleaved at their await points, the texts
\* each request gets for its chunks are those it would get running alone;
\* the calls share no state that one of them changes.
C13_RequestsIndependent ==
  /\ \A i \in 1..Len(texts) : texts[i] = AloneText(reads[i])
  /\ \A i \in 1..Len(parked.texts) : parked.texts[i] = AloneText(parked.reads[i])
  /\ Returned => text = AloneText(segs)
  /\ parked.pc = "settled" => parked.text = AloneText(parked.segs)
  /\ lastIndex = 0

C13_Witness ==
  /\ parked.pc = "gunzip"
  /\ parked.segs[1].bytes = <<1, 0, 0, 0, 4, 31, 139, 1, 2, 3, 4>>
  /\ Len(parked.texts) = 1
  /\ Returned
  /\ fallback
  /\ segs = parked.segs
  /\ text = <<>>
  /\ texts = <<<<104, 105>>>>

\* stringToHex has built formattedMessages for the request
Formatted == formatted # <<>>

\* the role numbers in the encoded payload, message by message: the last
\* byte of each length-delimited message
EncodedRoles(buf, n) ==
  LET EndOf[i \in 0..n] == IF i = 0 THEN 0 ELSE EndOf[i - 1] + 2 + buf[EndOf[i - 1] + 2]
  IN  [i \in 1..n |-> buf[EndOf[i]]]

\* C14: stringToHex gives every message whose role is exactly "user" the
\* role 1 and every other message, whatever its role is or if it has
\* none, the role 2; the messages keep their number and their order, and
\* this is what is serialized.
C14_RoleMapping ==
  Formatted =>
    LET items == req.messages.items IN
    /\ Len(formatted) = Len(items)
    /\ \A i \in 1..Len(items) :
         /\ items[i].role = "user" => formatted[i].role = 1
         /\ items[i].role # "user" => formatted[i].role = 2
         /\ formatted[i].content = items[i].content
    /\ pc = "fetch" =>
         /\ Len(hexData) = Len(buffer) + 5
         /\ EncodedRoles(buffer, Len(items))
              = [i \in 1..Len(items) |-> IF items[i].role = "user" THEN 1 ELSE 2]

C14_Witness ==
  /\ pc = "fetch"
  /\ Len(formatted) = 5
  /\ [i \in 1..5 |-> formatted[i].role] = <<2, 1, 2, 2, 2>>
  /\ req.messages.items[4].role = "undefined"
  /\ req.messages.items[5].role = "User"

\* stringToHex was called and the schema rejected the request object
VerifyFailed == Formatted /\ ChatMessage_verify(formatted).err

\* the response is one error response: a JSON error with status 500 or,
\* for a request in stream mode, a single error event and the end
ErrorResponse ==
  /\ res.ended = 1
  /\ IF req.stream
     THEN out = <<[event |-> "error", data |-> <<>>]>> /\ res.body = "stream"
     ELSE res.status = 500 /\ res.body = "internal_error" /\ out = <<>>

\* C15: when the schema rejects the request object, stringToHex throws and
\* returns no bytes, the handler sends nothing upstream and does not try
\* again, and the caller gets an error response.
C15_VerifyFailure ==
  VerifyFailed =>
    /\ buffer = <<>>
    /\ hexData = <<>>
    /\ fetched = 0
    /\ nread = 0
    /\ pc \in {"handler_catch", "ended"}
    /\ pc = "ended" => ErrorResponse

C15_Witness ==
  /\ VerifyFailed
  /\ pc = "ended"
  /\ req.stream
  /\ ErrorResponse
  /\ res.status = 200

\* the handler has returned
Finished == pc \in {"ended", "open"}

\* the request has a model name and is not an o1 model asked to stream, so
\* that it gets as far as the try block
ReachesTry(r) ==
  r.model.defined /\ ~(startsWith(r.model.value, O1Prefix) /\ r.stream)

\* the request has no usable messages or supplies no token
LacksMessagesOrToken(r) ==
  \/ r.messages.kind # "array"
  \/ r.messages.items = <<>>
  \/ ~r.authorization.defined
  \/ authToken(r.authorization.value) = <<>>

\* C16: a request without messages (missing, not an array, empty) or
\* without a token (no Authorization header at all included) is answered
\* with status 400 "Invalid request" and reaches neither stringToHex nor
\* the upstream call; stringToHex only ever gets a non-empty sequence of
\* messages.  Stated for the requests that get as far as the try block.
C16_InvalidRequest ==
  /\ (ReachesTry(req) /\ LacksMessagesOrToken(req)) =>
       /\ ~Formatted
       /\ fetched = 0
       /\ Finished => (res.status = 400 /\ res.body = "invalid_request"
                        /\ res.ended = 1)
  /\ pc \in {"encode", "fetch"} =>
       (req.messages.kind = "array" /\ req.messages.items # <<>>)

\* the statement as claimed: the iterations of the loop, the one that
\* stops it included, number at most len(hex) / 10
C17_AsClaimed == iters * 10 <= Len(hex)

\* C17 (amended): the loop ends for every chunk.  An iteration stops the
\* loop without reading on when fewer than 10 hex characters are left or
\* the declared payload overruns the chunk; every iteration that does not
\* stop moves the offset on by at least 10, so these number at most
\* len(hex) / 10, and with the one iteration that stops the loop at most
\* len(hex) / 10 rounded up.
C17_LoopTerminates ==
  /\ [](pc = "loop" => (iters * 10 <= offset /\ offset <= Len(hex)))
  /\ [](iters * 10 < Len(hex) + 10)
  /\ [][iters' = iters + 1 =>
          /\ pc = "loop" /\ offset < Len(hex)
          /\ offset + 10 > Len(hex) => (pc' = "after_loop" /\ offset' = offset)
          /\ (offset + 10 <= Len(hex) /\ offset + 10 + 2 * dataLength' > Len(hex))
               => (pc' = "after_loop" /\ offset' = offset + 10)
          /\ pc' # "after_loop" => offset' = offset + 10 + 2 * dataLength'
          /\ pc' = "loop" => Len(results') = Len(results) + 1]_vars
  /\ (pc = "loop") ~> (pc \in {"after_loop", "catch"})

C17_Witness ==
  /\ pc = "after_loop"
  /\ iters = 3
  /\ Len(hex) = 26
  /\ offset = 20
  /\ Len(results) = 2

DoneEvents == SelectSeq(out, LAMBDA e : e.event = "done")

ErrorEvents == SelectSeq(out, LAMBDA e : e.event = "error")

\* C18: in stream mode a chunk with an empty text gives no event and a
\* chunk with a non-empty text gives exactly one event with that text;
\* when the body is exhausted one [DONE] event is written, after every
\* content event, and then the response is ended.
C18_StreamEvents ==
  stream =>
    /\ [i \in 1..Len(ContentEvents) |-> ContentEvents[i].data]
         = SelectSeq(texts, NonEmpty)
    /\ Len(DoneEvents) <= 1
    /\ Len(DoneEvents) = 1 =>
         /\ out[Len(out)].event = "done"
         /\ Len(texts) = nread
         /\ pc = "ended"
         /\ res.ended = 1
    /\ (pc = "ended" /\ fetched = 1 /\ ErrorEvents = <<>>) =>
         /\ Len(DoneEvents) = 1
         /\ Len(out) = Len(ContentEvents) + 1

C18_Witness ==
  /\ stream
  /\ pc = "ended"
  /\ Len(texts) = 2
  /\ texts[1] = <<>>
  /\ texts[2] # <<>>
  /\ out = <<[event |-> "content", data |-> texts[2]], [event |-> "done", data |-> <<>>]>>

\* C19: on every path through the handler (validation rejection, encode
\* failure, upstream failure, normal completion, a failure of the body
\* iteration after output has begun) the response is terminated, by json
\* or end, exactly once: never twice, and once by the time the handler
\* has returned.  Stated for the requests that name a model.
C19_TerminatedOnce ==
  req.model.defined =>
    /\ res.ended <= 1
    /\ Finished => res.ended = 1

\* the hex characters taken up by the first k segments of a chunk, each
\* of them a frame: 10 for the length and 2 for each byte of the payload
FrameEnd(desc, k) ==
  LET E[i \in 0..k] == IF i = 0 THEN 0 ELSE E[i - 1] + 10 + 2 * Len(desc[i].bytes)
  IN  E[k]

\* the first k segments of the chunk are frames (a request built by
\* stringToHex counts as one)
LeadingFrames(desc, k) ==
  /\ k <= Len(desc)
  /\ \A i \in 1..k : desc[i].kind \in {"frame", "request"}

\* C20: at every loop head the offset is even, within 0..len(hex) and on a
\* frame boundary, 10 + 2 * length further for every frame decoded so far,
\* and results holds one entry per frame decoded so far; every payload
\* handed to the decoder has exactly the declared number of bytes and is
\* the part of the chunk right behind its length prefix.
C20_ParserInvariant ==
  /\ [](pc = "loop" =>
         /\ offset % 2 = 0
         /\ 0 <= offset /\ offset <= Len(hex)
         /\ Len(results) = iters
         /\ LeadingFrames(segs, iters) => offset = FrameEnd(segs, iters)
         /\ iters >= 1 => Len(messageBuffer) = dataLength)
  /\ [][(iters' = iters + 1 /\ pc' \in {"loop", "catch"}) =>
          /\ offset' = offset + 10 + 2 * dataLength'
          /\ Len(messageBuffer') = dataLength'
          /\ offset \div 2 + 5 + dataLength' <= Len(chunk)
          /\ messageBuffer'
               = SubSeq(chunk, offset \div 2 + 6, offset \div 2 + 5 + dataLength')
          /\ pc' = "loop" => Len(results') = Len(results) + 1
          /\ pc' = "catch" => results' = results]_vars

C20_Witness ==
  /\ pc = "loop"
  /\ iters = 2
  /\ Len(segs) = 3
  /\ LeadingFrames(segs, 2)
  /\ offset = 28
  /\ offset < Len(hex)
  /\ messageBuffer = <<>>
  /\ results[1] = <<104, 105>>

====
